---------------------------- MODULE Spec2Model ----------------------------
(***************************************************************************)
(* Model of the personal finance dashboard (src/app.py,                    *)
(* src/finance_analysis.py).  The script is one synchronous pass over an   *)
(* uploaded CSV; Streamlit runs it again from the top on the next upload.  *)
(* The pass is cut into its sections, one action per section, so that an   *)
(* st.stop() or an exception leaves every later section unexecuted.        *)
(*                                                                         *)
(* Text is modelled as sequences of ASCII codes, timestamps as records     *)
(* [y, m, d], amounts as integers.  Float comparisons of the code are      *)
(* modelled by their exact IEEE-754 binary64 outcome on integer operands.  *)
(***************************************************************************)
EXTENDS Integers, Sequences, FiniteSets, TLC

VARIABLES pc, uploaded_file, error, exception, df, income_df, expense_df,
          total_income, total_expense_abs, savings, monthly, prediction,
          rendered, recurring, spike, score, budget, insight

vars == <<pc, uploaded_file, error, exception, df, income_df, expense_df,
          total_income, total_expense_abs, savings, monthly, prediction,
          rendered, recurring, spike, score, budget, insight>>

-----------------------------------------------------------------------------
(* Bounds of the checked input domains.                                    *)

\* rows per file in the general domain
MaxRows == 2
\* rows per file in the monthly-aggregation domain
MaxMonthlyRows == 3
\* rows per file in the recurring-payment domain
MaxRecurringRows == 3
\* buckets per sequence in the predictor domain
MaxBuckets == 4

-----------------------------------------------------------------------------
(* Text as ASCII codes.                                                    *)

DATETIME == <<100, 97, 116, 101, 116, 105, 109, 101>>
AMOUNT   == <<97, 109, 111, 117, 110, 116>>
TYPE     == <<116, 121, 112, 101>>
CATEGORY == <<99, 97, 116, 101, 103, 111, 114, 121>>
MERCHANT == <<109, 101, 114, 99, 104, 97, 110, 116>>

CREDIT   == <<67, 82, 69, 68, 73, 84>>
DEBIT    == <<68, 69, 66, 73, 84>>

\* "credit", "Debit", "TRANSFER": cell texts used by the input domains
credit_lower == <<99, 114, 101, 100, 105, 116>>
Debit_mixed  == <<68, 101, 98, 105, 116>>
TRANSFER     == <<84, 82, 65, 78, 83, 70, 69, 82>>

\* merchant cell texts "A", "B"
MerchA == <<65>>
MerchB == <<66>>

\* str.upper() on ASCII text: a..z move to A..Z, everything else stays
Upper(s) == [i \in DOMAIN s |-> IF s[i] >= 97 /\ s[i] <= 122 THEN s[i] - 32 ELSE s[i]]

\* Python's string order: lexicographic on the codes, a proper prefix first
StrLess(a, b) ==
    \E k \in 1..(Len(b)) :
        /\ \A j \in 1..(k - 1) : j <= Len(a) /\ a[j] = b[j]
        /\ k - 1 <= Len(a)
        /\ (k > Len(a) \/ a[k] < b[k])

Abs(x) == IF x < 0 THEN -x ELSE x

-----------------------------------------------------------------------------
(* Cells.  A row has one cell per column of the file; NoCell stands for a  *)
(* column the file does not have.  A datetime cell is a timestamp          *)
(* [y, m, d] (text that parses) or Unparseable.                            *)

NoCell == <<-1>>
Unparseable == [y |-> 0, m |-> 0, d |-> 0]
NaT == [y |-> -1, m |-> 0, d |-> 0]

Ts(y, m, d) == [y |-> y, m |-> m, d |-> d]

\* pd.to_datetime(errors="coerce") on one cell
to_datetime(cell) == IF cell = Unparseable THEN NaT ELSE cell

AllCols == {DATETIME, AMOUNT, TYPE, CATEGORY, MERCHANT}

RowsFor(cols, TS, AM, TY, ME) ==
    [datetime : IF DATETIME \in cols THEN TS ELSE {NoCell},
     amount   : IF AMOUNT \in cols THEN AM ELSE {NoCell},
     type     : IF TYPE \in cols THEN TY ELSE {NoCell},
     merchant : IF MERCHANT \in cols THEN ME ELSE {NoCell}]

\* a check that forgets the type column
required_cols_short == <<DATETIME, AMOUNT>>

required_cols == <<DATETIME, AMOUNT, TYPE>>

\* general domain: every file layout (any subset of the five columns)
GeneralRows(cols) ==
    RowsFor(cols,
            {Ts(2000, 2, 1), Unparseable},
            {-63, 63, 90},
            {CREDIT, credit_lower, Debit_mixed, TRANSFER},
            {MerchA})

\* monthly domain: expense rows over three calendar months either side of a
\* year end, two days of one month, both signs, and one income row
MonthlyRows(cols) ==
    RowsFor(cols,
            {Ts(1999, 12, 31), Ts(2000, 2, 1), Ts(2000, 2, 28), Ts(2000, 10, 5)},
            {-100, 100, 200, 300},
            {Debit_mixed},
            {MerchA})
    \cup RowsFor(cols, {Ts(2000, 1, 9)}, {100}, {CREDIT}, {MerchA})

\* recurring domain: two merchants, equal magnitudes of both signs, expense
\* and income rows, and an expense row whose timestamp does not parse
RecurringRows(cols) ==
    RowsFor(cols,
            {Ts(2000, 2, 1)},
            {-20, 20, 30},
            {DEBIT, CREDIT},
            {MerchA, MerchB})
    \cup RowsFor(cols, {Unparseable}, {20}, {DEBIT}, {MerchA})

\* predictor domain: one expense row per consecutive month, so that the
\* amounts are the monthly totals
SeriesFile(a) ==
    [columns |-> AllCols,
     rows |-> [i \in DOMAIN a |->
                 [datetime |-> Ts(2000, i, 15), amount |-> a[i],
                  type |-> DEBIT, merchant |-> MerchA]]]

SeriesAmounts == {0, 100, 150, 200, 300}

NoFile == [columns |-> {}, rows |-> <<>>]

-----------------------------------------------------------------------------
Init ==
    /\ pc = "await"
    /\ uploaded_file = NoFile
    /\ error = <<>>
    /\ exception = <<>>
    /\ df = <<>>
    /\ income_df = <<>>
    /\ expense_df = <<>>
    /\ total_income = 0
    /\ total_expense_abs = 0
    /\ savings = 0
    /\ monthly = <<>>
    /\ prediction = <<>>
    /\ rendered = {}
    /\ recurring = {}
    /\ spike = "none"
    /\ score = <<>>
    /\ budget = "none"
    /\ insight = "none"

\* st.file_uploader returns a file: the script runs with it
UploadFile(f) ==
    /\ pc = "await"
    /\ uploaded_file' = f
    /\ pc' = "validate"
    /\ UNCHANGED <<error, exception, df, income_df, expense_df, total_income,
                   total_expense_abs, savings, monthly, prediction, rendered,
                   recurring, spike, score, budget, insight>>

\* the row values of an input domain for a file with columns cols
DomainRows(domain, cols) ==
    CASE domain = "general" -> GeneralRows(cols)
      [] domain = "monthly" -> MonthlyRows(cols)
      [] domain = "recurring" -> RecurringRows(cols)

\* a file with one of the column sets and at most n rows of the domain
Upload(ColSets, domain, n) ==
    /\ pc = "await"
    /\ \E c \in ColSets : \E k \in 0..n : \E r \in [1..k -> DomainRows(domain, c)] :
            UploadFile([columns |-> c, rows |-> r])

\* a file of the predictor domain
UploadSeries ==
    /\ pc = "await"
    /\ \E k \in 0..MaxBuckets : \E a \in [1..k -> SeriesAmounts] :
            UploadFile(SeriesFile(a))

\* the first required column, in list order, that the file lacks (0: none)
FirstMissing(cols) ==
    IF \A i \in DOMAIN required_cols : required_cols[i] \in cols THEN 0
    ELSE CHOOSE i \in DOMAIN required_cols :
            /\ required_cols[i] \notin cols
            /\ \A j \in 1..(i - 1) : required_cols[j] \in cols

\* required-column check: st.error + st.stop() on the first missing column
Validate ==
    /\ pc = "validate"
    /\ LET i == FirstMissing(uploaded_file.columns) IN
        IF i # 0
        THEN /\ error' = <<required_cols[i]>>
             /\ pc' = "stopped"
        ELSE /\ error' = error
             /\ pc' = "load"
    /\ UNCHANGED <<uploaded_file, exception, df, income_df, expense_df, total_income,
                   total_expense_abs, savings, monthly, prediction, rendered,
                   recurring, spike, score, budget, insight>>

-----------------------------------------------------------------------------
(* Loading and splitting.                                                  *)

RECURSIVE SumAmount(_)
\* Series.sum() of the amount column
SumAmount(rows) ==
    IF rows = <<>> THEN 0 ELSE rows[1].amount + SumAmount(Tail(rows))

\* to_datetime on the datetime column, str.upper on the type column; the row
\* keeps its index label (0-based position in the file)
Normalised(rows) ==
    [i \in DOMAIN rows |->
        [index    |-> i - 1,
         datetime |-> to_datetime(rows[i].datetime),
         amount   |-> rows[i].amount,
         type     |-> Upper(rows[i].type),
         merchant |-> rows[i].merchant]]

NotNaT(r) == r.datetime # NaT

\* df.dropna(subset=["datetime"])
dropna(rows) == SelectSeq(rows, NotNaT)

\* a split that takes everything but expenses as income
IsIncome_rest(r) == r.type # DEBIT

IsIncome(r) == r.type = CREDIT

IsExpense(r) == r.type = DEBIT

\* a column the section reads and the file lacks raises KeyError
MissingOf(cols, needed) ==
    IF \A i \in DOMAIN needed : needed[i] \in cols THEN <<>>
    ELSE LET i == CHOOSE i \in DOMAIN needed :
                    /\ needed[i] \notin cols
                    /\ \A j \in 1..(i - 1) : needed[j] \in cols
         IN <<needed[i]>>

LoadSplit ==
    /\ pc = "load"
    /\ LET miss == MissingOf(uploaded_file.columns, <<DATETIME, TYPE, AMOUNT>>) IN
        IF miss # <<>>
        THEN /\ exception' = miss
             /\ pc' = "raised"
             /\ UNCHANGED <<df, income_df, expense_df, total_income,
                            total_expense_abs, savings, rendered>>
        ELSE LET d == dropna(Normalised(uploaded_file.rows))
                 inc == SelectSeq(d, IsIncome)
                 exp == SelectSeq(d, IsExpense)
             IN /\ df' = d
                /\ income_df' = inc
                /\ expense_df' = exp
                /\ total_income' = SumAmount(inc)
                /\ total_expense_abs' = Abs(SumAmount(exp))
                /\ savings' = SumAmount(inc) - Abs(SumAmount(exp))
                /\ rendered' = rendered \cup {"kpi"}
                /\ exception' = exception
                /\ pc' = "monthly"
    /\ UNCHANGED <<uploaded_file, error, monthly, prediction, recurring, spike,
                   score, budget, insight>>

-----------------------------------------------------------------------------
(* Monthly summary.                                                        *)

\* a month key without the zero padding of the month ("2000-2")
to_period_str_unpadded(ts) ==
    <<48 + (ts.y \div 1000), 48 + ((ts.y \div 100) % 10), 48 + ((ts.y \div 10) % 10),
      48 + (ts.y % 10), 45>>
    \o (IF ts.m >= 10 THEN <<48 + (ts.m \div 10)>> ELSE <<>>) \o <<48 + (ts.m % 10)>>

\* dt.to_period("M").astype(str): "YYYY-MM"; the day is dropped
to_period_str(ts) ==
    <<48 + (ts.y \div 1000), 48 + ((ts.y \div 100) % 10), 48 + ((ts.y \div 10) % 10),
      48 + (ts.y % 10), 45, 48 + (ts.m \div 10), 48 + (ts.m % 10)>>

RECURSIVE SortStr(_)
\* groupby(sort=True): the group keys in ascending string order
SortStr(S) ==
    IF S = {} THEN <<>>
    ELSE LET mn == CHOOSE k \in S : \A o \in S \ {k} : StrLess(k, o)
         IN <<mn>> \o SortStr(S \ {mn})

\* groupby("month")["amount"].sum().abs().reset_index()
MonthlyOf(rows) ==
    LET ks == SortStr({to_period_str(rows[i].datetime) : i \in DOMAIN rows})
        InMonth(k) == LET Hit(r) == to_period_str(r.datetime) = k
                      IN SelectSeq(rows, Hit)
    IN [i \in DOMAIN ks |->
            [month |-> ks[i], total_expense |-> Abs(SumAmount(InMonth(ks[i])))]]

MonthlySummary ==
    /\ pc = "monthly"
    /\ monthly' = MonthlyOf(expense_df)
    /\ pc' = "predict"
    /\ UNCHANGED <<uploaded_file, error, exception, df, income_df, expense_df,
                   total_income, total_expense_abs, savings, prediction, rendered,
                   recurring, spike, score, budget, insight>>

-----------------------------------------------------------------------------
(* predict_next_month: LinearRegression on month_index = 0..n-1.           *)
(* Rationals are pairs [num, den] with den > 0.                            *)

RECURSIVE SumSeq(_)
SumSeq(s) == IF s = <<>> THEN 0 ELSE s[1] + SumSeq(Tail(s))

Totals(m) == [i \in DOMAIN m |-> m[i].total_expense]

\* np.arange(len(monthly_df))
month_index(n) == [i \in 1..n |-> i - 1]

\* LinearRegression.fit: X and y are centred on their means, the slope is
\* the least-squares solution on the centred data, and the intercept is
\* y_mean - x_mean * coef.  With u = 2n(x - x_mean), v = n(y - y_mean),
\* P = sum u v and Q = sum u u: coef = 2P/Q, intercept = (sum y * Q - 2 * sum x * P)/(nQ)
OLSFit(x, y) ==
    LET n == Len(y)
        u == [i \in 1..n |-> n * 2 * x[i] - 2 * SumSeq(x)]
        v == [i \in 1..n |-> n * y[i] - SumSeq(y)]
        P == SumSeq([i \in 1..n |-> u[i] * v[i]])
        Q == SumSeq([i \in 1..n |-> u[i] * u[i]])
    IN  \* both over the common denominator n * Q
        [coef      |-> [num |-> 2 * n * P, den |-> n * Q],
         intercept |-> [num |-> SumSeq(y) * Q - 2 * SumSeq(x) * P, den |-> n * Q]]

\* model.predict([[x0]])[0] = coef * x0 + intercept
OLSPredict(fit, x0) ==
    [num |-> fit.coef.num * x0 + fit.intercept.num, den |-> fit.coef.den]

\* round(v, 2) in hundredths: nearest, a tie to the even hundredth
Round2(q) ==
    LET s == 100 * q.num
        f == s \div q.den
        r == s % q.den
    IN IF 2 * r < q.den THEN f
       ELSE IF 2 * r > q.den THEN f + 1
       ELSE IF f % 2 = 0 THEN f ELSE f + 1

\* a forecast at the last observed index
next_index_last(n) == n - 1

\* next_index = month_index.max() + 1
next_index(n) == (n - 1) + 1

\* the return value in hundredths (the sentinel 0 is 0 hundredths)
predict_next_month(monthly_df) ==
    IF Len(monthly_df) < 2 THEN 0
    ELSE LET n == Len(monthly_df)
             fit == OLSFit(month_index(n), Totals(monthly_df))
         IN Round2(OLSPredict(fit, next_index(n)))

Prediction ==
    /\ pc = "predict"
    /\ IF Len(monthly) >= 2
       THEN /\ prediction' = <<predict_next_month(monthly)>>
            /\ rendered' = rendered \cup {"forecast"}
       ELSE UNCHANGED <<prediction, rendered>>
    /\ pc' = "charts"
    /\ UNCHANGED <<uploaded_file, error, exception, df, income_df, expense_df,
                   total_income, total_expense_abs, savings, monthly,
                   recurring, spike, score, budget, insight>>

\* trend chart always; category and merchant charts when the column exists
Charts ==
    /\ pc = "charts"
    /\ rendered' = rendered \cup {"trend"}
            \cup (IF CATEGORY \in uploaded_file.columns THEN {"category"} ELSE {})
            \cup (IF MERCHANT \in uploaded_file.columns THEN {"merchants"} ELSE {})
    /\ pc' = "smart"
    /\ UNCHANGED <<uploaded_file, error, exception, df, income_df, expense_df,
                   total_income, total_expense_abs, savings, monthly, prediction,
                   recurring, spike, score, budget, insight>>

-----------------------------------------------------------------------------
(* Smart financial intelligence: recurring payments, spike, health score.  *)

\* groupby(["merchant", "abs_amount"]).size() of the expense rows, as
\* (merchant, abs_amount, count) rows
RecurringGroups(rows) ==
    {[merchant   |-> rows[i].merchant,
      abs_amount |-> Abs(rows[i].amount),
      count      |-> Cardinality({j \in DOMAIN rows :
                                    /\ rows[j].merchant = rows[i].merchant
                                    /\ Abs(rows[j].amount) = Abs(rows[i].amount)})]
     : i \in DOMAIN rows}

\* a threshold of two occurrences
IsRecurring_two(g) == g.count >= 2

\* recurring[recurring["count"] >= 3]
IsRecurring(g) == g.count >= 3

\* last > prev * 1.25 / last < prev * 0.75 (1.25 and 0.75 are exact in binary64)
SpikeOf(m) ==
    IF Len(m) < 2 THEN "none"
    ELSE LET last == m[Len(m)].total_expense
             prev == m[Len(m) - 1].total_expense
         IN IF 4 * last > 5 * prev THEN "spike"
            ELSE IF 4 * last < 3 * prev THEN "reduced"
            ELSE "none"

\* ratio >= k/10 for ratio = s / inc in binary64, inc > 0: the division is
\* correctly rounded and the literal is the double nearest k/10, so on integers
\* s, inc the comparison agrees with the exact one
RatioAtLeast(s, inc, k) == 10 * s >= k * inc

\* the four tiers of the savings ratio
HealthOf(s, inc) ==
    IF RatioAtLeast(s, inc, 3) THEN [score |-> 90, status |-> "Excellent"]
    ELSE IF RatioAtLeast(s, inc, 2) THEN [score |-> 75, status |-> "Good"]
    ELSE IF RatioAtLeast(s, inc, 1) THEN [score |-> 50, status |-> "Average"]
    ELSE [score |-> 30, status |-> "Poor"]

SmartIntelligence ==
    /\ pc = "smart"
    /\ IF expense_df # <<>>
       THEN IF MERCHANT \notin uploaded_file.columns
            THEN \* groupby(["merchant", "abs_amount"]) raises KeyError
                 /\ exception' = <<MERCHANT>>
                 /\ pc' = "raised"
                 /\ UNCHANGED <<recurring, rendered, spike, score>>
            ELSE LET rec == {g \in RecurringGroups(expense_df) : IsRecurring(g)} IN
                 /\ recurring' = rec
                 /\ spike' = SpikeOf(monthly)
                 /\ score' = IF total_income > 0
                             THEN <<HealthOf(savings, total_income)>> ELSE score
                 /\ rendered' = rendered
                        \cup (IF rec # {} THEN {"recurring"} ELSE {})
                        \cup (IF total_income > 0 THEN {"health"} ELSE {})
                 /\ exception' = exception
                 /\ pc' = "budget"
       ELSE /\ pc' = "budget"
            /\ UNCHANGED <<exception, recurring, rendered, spike, score>>
    /\ UNCHANGED <<uploaded_file, error, df, income_df, expense_df, total_income,
                   total_expense_abs, savings, monthly, prediction, budget, insight>>

-----------------------------------------------------------------------------
(* Budget plan and insights.                                               *)

RECURSIVE Pow2AtLeast(_, _)
\* the least power of two p * 2^k that is >= e
Pow2AtLeast(p, e) == IF p >= e THEN p ELSE Pow2AtLeast(2 * p, e)

\* e > inc * c in binary64, for integers e >= 0 and inc, where c is the double
\* nearest a/10: c = (a * 2^p - t) / (10 * 2^p) exactly, sh = 2^(p - 53).
\* The product is rounded to nearest; it is below e exactly when the real
\* product is below the midpoint of e and the double before e:
\*   (10 e - a inc) * 2^p > 10 * 2^(k + p - 53) - t * inc,  2^k < e <= 2^(k+1)
\* which 10 e # a inc decides alone, and otherwise is 2 t inc > 10 * 2^(k+1) * sh.
GtProduct(e, inc, a, t, sh) ==
    IF inc = 0 THEN e > 0
    ELSE IF inc < 0 THEN TRUE
    ELSE IF 10 * e # a * inc THEN 10 * e > a * inc
    ELSE 2 * t * inc > 10 * Pow2AtLeast(1, e) * sh

\* total_expense_abs > total_income * 0.7; 0.7 is (7 * 2^53 - 4) / (10 * 2^53)
BudgetExceeded(e, inc) == GtProduct(e, inc, 7, 4, 1)

BudgetPlan ==
    /\ pc = "budget"
    /\ budget' = IF BudgetExceeded(total_expense_abs, total_income)
                 THEN "exceeded" ELSE "within"
    /\ rendered' = rendered \cup {"budget"}
    /\ pc' = "insights"
    /\ UNCHANGED <<uploaded_file, error, exception, df, income_df, expense_df,
                   total_income, total_expense_abs, savings, monthly, prediction,
                   recurring, spike, score, insight>>

\* savings > total_income * 0.3; 0.3 is (3 * 2^54 - 2) / (10 * 2^54)
StrongSavings(s, inc) == GtProduct(s, inc, 3, 2, 2)

InsightsDownload ==
    /\ pc = "insights"
    /\ insight' = IF savings < 0 THEN "negative"
                  ELSE IF StrongSavings(savings, total_income) THEN "strong"
                  ELSE "none"
    /\ rendered' = rendered \cup {"tip", "download"}
    /\ pc' = "done"
    /\ UNCHANGED <<uploaded_file, error, exception, df, income_df, expense_df,
                   total_income, total_expense_abs, savings, monthly, prediction,
                   recurring, spike, score, budget>>

\* the script has ended (to its last line, by st.stop() or by an exception);
\* with no file in the uploader it shows the upload prompt again
AwaitUpload ==
    /\ pc \in {"done", "stopped", "raised"}
    /\ pc' = "await"
    /\ uploaded_file' = NoFile
    /\ error' = <<>>
    /\ exception' = <<>>
    /\ df' = <<>>
    /\ income_df' = <<>>
    /\ expense_df' = <<>>
    /\ total_income' = 0
    /\ total_expense_abs' = 0
    /\ savings' = 0
    /\ monthly' = <<>>
    /\ prediction' = <<>>
    /\ rendered' = {}
    /\ recurring' = {}
    /\ spike' = "none"
    /\ score' = <<>>
    /\ budget' = "none"
    /\ insight' = "none"

\* every section after the upload
Pass ==
    \/ Validate
    \/ LoadSplit
    \/ MonthlySummary
    \/ Prediction
    \/ Charts
    \/ SmartIntelligence
    \/ BudgetPlan
    \/ InsightsDownload
    \/ AwaitUpload


-----------------------------------------------------------------------------
(* Properties.                                                             *)

RequiredColumns == {DATETIME, AMOUNT, TYPE}

\* the sections that have run
LoadDone == "kpi" \in rendered
MonthlyDone == pc \in {"predict", "charts", "smart", "budget", "insights", "done", "raised"}
PredictDone == pc \in {"charts", "smart", "budget", "insights", "done", "raised"}
SmartDone == pc \in {"budget", "insights", "done"}
BudgetDone == pc \in {"insights", "done"}

IndexSet(d) == {d[k].index : k \in DOMAIN d}

\* year * 12 + month of a timestamp
YearMonth(ts) == ts.y * 12 + ts.m

RECURSIVE DigitsValue(_)
DigitsValue(s) ==
    IF s = <<>> THEN 0 ELSE 10 * DigitsValue(SubSeq(s, 1, Len(s) - 1)) + (s[Len(s)] - 48)

\* year * 12 + month read back from a "YYYY-MM" key
KeyYearMonth(k) ==
    LET dash == CHOOSE p \in DOMAIN k : k[p] = 45
    IN DigitsValue(SubSeq(k, 1, dash - 1)) * 12 + DigitsValue(SubSeq(k, dash + 1, Len(k)))

RECURSIVE SumAbsAmount(_)
SumAbsAmount(rows) ==
    IF rows = <<>> THEN 0 ELSE Abs(rows[1].amount) + SumAbsAmount(Tail(rows))

\* C1: each monthly bucket's total_expense is the sum of the absolute values
\* of the amounts of the expense rows of that month.
C1_SumOfAbsolutes ==
    MonthlyDone =>
        \A i \in DOMAIN monthly :
            LET Hit(r) == YearMonth(r.datetime) = KeyYearMonth(monthly[i].month)
            IN monthly[i].total_expense = SumAbsAmount(SelectSeq(expense_df, Hit))

\* C2: after loading, income_rows and expense_rows are disjoint; a row of the
\* file is in income_rows (expense_rows) exactly when its timestamp parses and
\* its type is CREDIT (DEBIT) after uppercasing; every other row is in neither.
C2_SplitPartition ==
    LoadDone =>
        LET rows == uploaded_file.rows
            Parses(i) == rows[i].datetime # Unparseable
        IN /\ IndexSet(income_df) \cap IndexSet(expense_df) = {}
           /\ IndexSet(income_df) \cup IndexSet(expense_df) \subseteq {i - 1 : i \in DOMAIN rows}
           /\ \A i \in DOMAIN rows :
                /\ (i - 1 \in IndexSet(income_df))
                       <=> (Parses(i) /\ Upper(rows[i].type) = CREDIT)
                /\ (i - 1 \in IndexSet(expense_df))
                       <=> (Parses(i) /\ Upper(rows[i].type) = DEBIT)
           /\ Len(income_df) = Cardinality(IndexSet(income_df))
           /\ Len(expense_df) = Cardinality(IndexSet(expense_df))

\* a lower-case credit row is income, and a row that does not parse or is of
\* another type is in neither subset
C2_Witness ==
    /\ pc = "monthly"
    /\ \E i \in DOMAIN uploaded_file.rows :
          /\ uploaded_file.rows[i].type = credit_lower
          /\ i - 1 \in IndexSet(income_df)
    /\ \E i \in DOMAIN uploaded_file.rows :
          /\ \/ uploaded_file.rows[i].datetime = Unparseable
             \/ uploaded_file.rows[i].type = TRANSFER
          /\ i - 1 \notin IndexSet(income_df) \cup IndexSet(expense_df)

\* C3: the monthly buckets are exactly the calendar months that hold an
\* expense row, one bucket each, in strictly ascending chronological order:
\* bucket i is the i-th earliest month present.
C3_ChronologicalBuckets ==
    MonthlyDone =>
        LET Present == {YearMonth(expense_df[k].datetime) : k \in DOMAIN expense_df}
            Key(i) == KeyYearMonth(monthly[i].month)
        IN /\ Len(monthly) = Cardinality(Present)
           /\ \A i \in DOMAIN monthly : Key(i) \in Present
           /\ \A i, j \in DOMAIN monthly : i < j => Key(i) < Key(j)
           /\ \A i \in DOMAIN monthly :
                Cardinality({q \in Present : q < Key(i)}) = i - 1

\* expense rows given latest first, either side of a year end, and an income
\* row in a month between them that gets no bucket
C3_Witness ==
    /\ pc = "predict"
    /\ Len(monthly) = 2
    /\ Len(expense_df) = 2
    /\ YearMonth(expense_df[1].datetime) > YearMonth(expense_df[2].datetime)
    /\ expense_df[2].datetime.y < expense_df[1].datetime.y
    /\ income_df # <<>>

\* C4: for n >= 2 buckets the forecast is the least-squares line through
\* (i, y_i), i = 0..n-1, taken at n and rounded to hundredths: the residuals
\* of the fitted line sum to zero and are orthogonal to the index (the normal
\* equations of the least-squares minimum); an arithmetic progression gives its
\* next term and [100, 200, 300] gives 400.
C4_LeastSquaresForecast ==
    PredictDone =>
        /\ ("forecast" \in rendered) <=> (Len(monthly) >= 2)
        /\ Len(monthly) >= 2 =>
            LET y == Totals(monthly)
                n == Len(y)
                fit == OLSFit(month_index(n), y)
                D == fit.coef.den
                Res(i) == D * y[i] - (fit.coef.num * (i - 1) + fit.intercept.num)
                c == prediction[1]
                exact == fit.coef.num * n + fit.intercept.num
            IN /\ D > 0 /\ fit.intercept.den = D
               /\ SumSeq([i \in 1..n |-> Res(i)]) = 0
               /\ SumSeq([i \in 1..n |-> (i - 1) * Res(i)]) = 0
               /\ Len(prediction) = 1
               /\ 2 * Abs(100 * exact - c * D) <= D
               /\ (\A i \in 2..n : y[i] - y[i - 1] = y[2] - y[1])
                      => c = 100 * (y[n] + (y[2] - y[1]))
               /\ y = <<100, 200, 300>> => c = 40000

C4_Witness ==
    /\ pc = "charts"
    /\ Totals(monthly) = <<100, 200, 300>>
    /\ prediction = <<40000>>

\* C5: with fewer than 2 buckets predict_next_month returns its sentinel, no
\* forecast is displayed, and the pass runs on without an error.
C5_NoForecastNoError ==
    (PredictDone /\ Len(monthly) < 2) =>
        /\ predict_next_month(monthly) = 0
        /\ prediction = <<>>
        /\ "forecast" \notin rendered
        /\ pc # "raised"

\* C6: a file that lacks a required column ends at the column check, with an
\* error naming a missing required column and nothing computed or displayed,
\* and the system awaits the next upload.
C6_SchemaErrorStops ==
    (pc \notin {"await", "validate"} /\ ~(RequiredColumns \subseteq uploaded_file.columns)) =>
        /\ pc = "stopped"
        /\ Len(error) = 1
        /\ error[1] \in RequiredColumns \ uploaded_file.columns
        /\ exception = <<>>
        /\ df = <<>> /\ income_df = <<>> /\ expense_df = <<>>
        /\ total_income = 0 /\ total_expense_abs = 0 /\ savings = 0
        /\ monthly = <<>> /\ prediction = <<>>
        /\ rendered = {} /\ recurring = {} /\ spike = "none"
        /\ score = <<>> /\ budget = "none" /\ insight = "none"
        /\ ENABLED AwaitUpload

\* a file with rows and without its type column has stopped
C6_Witness ==
    /\ pc = "stopped"
    /\ error = <<TYPE>>
    /\ uploaded_file.rows # <<>>
    /\ {DATETIME, AMOUNT, MERCHANT} \subseteq uploaded_file.columns

\* C7: a file with the required columns that lacks the merchant or the
\* category column completes without an error; what depends on the absent
\* column is skipped and everything else is produced.
C7_OptionalColumnsSkipped ==
    LET c == uploaded_file.columns IN
    (pc \notin {"await", "validate"} /\ RequiredColumns \subseteq c
        /\ (MERCHANT \notin c \/ CATEGORY \notin c)) =>
        /\ pc # "raised"
        /\ pc = "done" =>
            /\ {"kpi", "trend", "budget", "tip", "download"} \subseteq rendered
            /\ ("merchants" \in rendered) <=> (MERCHANT \in c)
            /\ ("category" \in rendered) <=> (CATEGORY \in c)
            /\ MERCHANT \notin c => recurring = {}
            /\ ("health" \in rendered) <=> (total_income > 0)
            /\ ("forecast" \in rendered) <=> (Len(monthly) >= 2)

\* C8: when total income is > 0 a health score is produced, by the savings
\* ratio r = savings / income: r >= 0.30 -> 90, r >= 0.20 -> 75, r >= 0.10 ->
\* 50, else 30; when total income is <= 0 no score is produced.
C8_HealthScoreTiers ==
    pc = "done" =>
        IF total_income > 0
        THEN /\ Len(score) = 1
             /\ score[1] =
                  (IF 10 * savings >= 3 * total_income THEN [score |-> 90, status |-> "Excellent"]
                   ELSE IF 10 * savings >= 2 * total_income THEN [score |-> 75, status |-> "Good"]
                   ELSE IF 10 * savings >= total_income THEN [score |-> 50, status |-> "Average"]
                   ELSE [score |-> 30, status |-> "Poor"])
        ELSE score = <<>>

\* C9: the budget check reports "exceeded" exactly when the total absolute
\* expense is strictly greater than 70% of the total income, and "within
\* budget" otherwise.
C9_BudgetStrictlyAbove70 ==
    BudgetDone =>
        /\ budget \in {"exceeded", "within"}
        /\ (budget = "exceeded") <=> (10 * total_expense_abs > 7 * total_income)

\* C10: with a merchant column, a (merchant, absolute amount) pair is reported
\* as recurring exactly when at least 3 expense rows share the merchant and the
\* absolute amount, and the reported count is the number of those rows.
C10_RecurringAtLeastThree ==
    (SmartDone /\ MERCHANT \in uploaded_file.columns) =>
        LET rows == uploaded_file.rows
            Exp == {i \in DOMAIN rows : /\ rows[i].datetime # Unparseable
                                        /\ Upper(rows[i].type) = DEBIT}
            Cnt(m, a) == Cardinality({i \in Exp : /\ rows[i].merchant = m
                                                  /\ Abs(rows[i].amount) = a})
        IN /\ \A i \in DOMAIN rows :
                (\E g \in recurring : /\ g.merchant = rows[i].merchant
                                      /\ g.abs_amount = Abs(rows[i].amount))
                    <=> Cnt(rows[i].merchant, Abs(rows[i].amount)) >= 3
           /\ \A g \in recurring :
                /\ g.count = Cnt(g.merchant, g.abs_amount)
                /\ g.count >= 3
           /\ ("recurring" \in rendered) <=> (recurring # {})

\* three expense rows of one merchant and magnitude, of both signs, reported
\* with count 3
C10_Witness ==
    /\ pc = "budget"
    /\ \E g \in recurring : g.count = 3
    /\ \E i, j \in DOMAIN expense_df : expense_df[i].amount = - expense_df[j].amount
    /\ Len(expense_df) = 3

-----------------------------------------------------------------------------
\* the pass over every file layout
Spec == Init /\ [][Upload(SUBSET AllCols, "general", MaxRows) \/ Pass]_vars

\* the pass over the monthly-aggregation domain
SpecMonthly == Init /\ [][Upload({AllCols}, "monthly", MaxMonthlyRows) \/ Pass]_vars

\* the pass over the predictor domain
SpecPredict == Init /\ [][UploadSeries \/ Pass]_vars

\* the pass over the recurring-payment domain
SpecRecurring == Init /\ [][Upload({AllCols}, "recurring", MaxRecurringRows) \/ Pass]_vars


=============================================================================
